---- MODULE Spec2Model ----
(***************************************************************************)
(* Model of core/src/file/cas/identifier.rs: FileIdentifierJob::run and    *)
(* the store queries it issues (count_orphan_file_paths,                   *)
(* get_orphan_file_paths, the raw bulk INSERT .. ON CONFLICT DO NOTHING,    *)
(* file().find_unique and file_path().update), run by up to two job        *)
(* instances that interleave at the granularity of one store operation.    *)
(***************************************************************************)
EXTENDS Integers, Sequences, FiniteSets, TLC

(* ------------------------------ bounds -------------------------------- *)

\* number of rows of the file_paths table (ids 1..NumPaths)
NumPaths == 3
\* page size of get_orphan_file_paths and divisor of task_count; the code
\* uses 100 for both (take(100), total_count / 100f64), scaled down here
PageSize == 2
\* how many store operations may fail over a whole behaviour
MaxStoreErrors == 1

(* ---------------------------- the universe ---------------------------- *)

\* file_id IS NULL (file_path::file_id::equals(None))
NULL == 0

PathIds == 1..NumPaths
\* the two job instances that may run (sequentially or concurrently)
Jobs == {"j1", "j2"}
\* ids of the rows of the locations table
Locs == {1, 2}
\* materialized (relative) paths the scanner recorded
MPaths == {"x", "y", "z", "d"}

\* fs::metadata fails (file deleted, never existed under this root)
NoFile == <<"nofile", "">>
\* fs::metadata succeeds but generate_cas_id returns Err (cannot be opened)
NoRead == <<"noread", "">>
\* fs::metadata succeeds on a directory, which is never hashed
IsDir == <<"dir", "">>
\* what generate_cas_id returns for a file: the 16 characters that survive
\* ret.truncate(16) and the rest of the digest
Digests == {<<"a", "0">>, <<"b", "0">>, <<"b", "1">>}
FileStates == Digests \cup {NoFile, NoRead, IsDir}

\* location.path of each row of the locations table
LocationPath(l) == IF l = 1 THEN "/L1" ELSE "/L2"

VARIABLES
    disk,        \* the filesystem: <<root, materialized_path>> -> FileStates
    file_paths,  \* table file_paths: id -> row
    files,       \* table files: sequence of rows, files[i].id = i
    pc,          \* where each job is in run()
    job,         \* the locals of each job's run()
    errors,      \* store operations that have failed so far
    hist         \* per run: what the run has done (observation only)

vars == <<disk, file_paths, files, pc, job, errors, hist>>

(* ------------------------- pure functions ----------------------------- *)

\* the WHERE clause shared by both orphan queries
OrphanFilter(fp) == fp.file_id = NULL /\ ~fp.is_dir

\* SELECT COUNT(*) .. WHERE file_id IS NULL AND is_dir IS FALSE AND location_id = {}
count_orphan_file_paths(fps, location_id) ==
    Cardinality({p \in PathIds :
        OrphanFilter(fps[p]) /\ fps[p].location_id = location_id})

RECURSIVE AscendingTake(_, _)
\* order_by(id ASC) .. take(n): the n smallest ids of S in ascending order
AscendingTake(S, n) ==
    IF S = {} \/ n = 0 THEN <<>>
    ELSE LET m == CHOOSE x \in S : \A y \in S : x <= y
         IN  <<m>> \o AscendingTake(S \ {m}, n - 1)

\* a find_many without file_path::file_id::equals(None)
get_orphan_candidates_AnyFileId(fps, cursor) ==
    {p \in PathIds : ~fps[p].is_dir /\ p >= cursor}

\* the rows find_many([...]).order_by(id).cursor(id = cursor) selects from
get_orphan_candidates(fps, cursor) ==
    {p \in PathIds : OrphanFilter(fps[p]) /\ p >= cursor}

\* find_many(file_id = None, is_dir = false).order_by(id ASC).cursor(cursor).take(100)
get_orphan_file_paths(fps, cursor) ==
    AscendingTake(get_orphan_candidates(fps, cursor), PageSize)

\* a task count that is one more than the number of full pages
TaskCount_FloorPlusOne(total_count) == total_count \div PageSize + 1

\* (total_count as f64 / 100f64).ceil() as usize
TaskCount(total_count) == (total_count + PageSize - 1) \div PageSize

\* ret.truncate(16)
Truncate16(digest) == digest[1]

\* prepare_file_values: "err" when fs::metadata fails, "panic" when
\* generate_cas_id(..).unwrap() hits an Err, otherwise "ok" with the cas_id
\* ("" for a directory) and the two values of its row, size always 0
prepare_file_values(d, location_path, fp) ==
    LET path == <<location_path, fp.materialized_path>>
    IN  IF d[path] = NoFile
        THEN [res |-> "err", cas_id |-> "", data |-> <<>>]
        ELSE IF fp.is_dir
        THEN [res |-> "ok", cas_id |-> "", data |-> <<"", 0>>]
        ELSE IF d[path] = NoRead
        THEN [res |-> "panic", cas_id |-> "", data |-> <<>>]
        ELSE [res |-> "ok", cas_id |-> Truncate16(d[path]),
              data |-> <<Truncate16(d[path]), 0>>]

RECURSIVE HashPage(_, _, _, _, _, _)
\* the for loop over file_paths (lines 75-86): every record that hashes is
\* entered in cas_id_lookup and its two values appended; an Err is skipped
HashPage(d, location_path, fps, page, lookup, values) ==
    IF page = <<>> THEN [panic |-> FALSE, lookup |-> lookup, values |-> values]
    ELSE LET id == Head(page)
             r == prepare_file_values(d, location_path, fps[id])
         IN  IF r.res = "panic"
             THEN [panic |-> TRUE, lookup |-> lookup, values |-> values]
             ELSE IF r.res = "ok"
             THEN HashPage(d, location_path, fps, Tail(page),
                           (id :> r.cas_id) @@ lookup, values \o r.data)
             ELSE HashPage(d, location_path, fps, Tail(page), lookup, values)

(* ------------------------- store operations --------------------------- *)

\* an INSERT whose conflict target never matches a stored row
Conflicts_Never(table, cas_id) == FALSE

\* the UNIQUE constraint on files.cas_id that ON CONFLICT (cas_id) tests
Conflicts(table, cas_id) == \E i \in 1..Len(table) : table[i].cas_id = cas_id

RECURSIVE InsertRows(_, _, _)
\* INSERT .. VALUES rows ON CONFLICT (cas_id) DO NOTHING RETURNING id, cas_id:
\* rows are taken in order, a row whose cas_id is already in the table (put
\* there earlier, or by an earlier row of this statement) is skipped
InsertRows(table, rows, created) ==
    IF rows = <<>> THEN [table |-> table, created |-> created]
    ELSE LET row == Head(rows)
         IN  IF Conflicts(table, row[1])
             THEN InsertRows(table, Tail(rows), created)
             ELSE LET rec == [id |-> Len(table) + 1, cas_id |-> row[1],
                              size_in_bytes |-> row[2]]
                  IN  InsertRows(Append(table, rec), Tail(rows),
                                 Append(created, [id |-> rec.id, cas_id |-> rec.cas_id]))

\* the statement has one "({}, {})" per fetched record (file_paths.len())
Placeholders(n_file_paths) == 2 * n_file_paths

\* db._query_raw(Raw::new(format!(..), values)): the statement is rejected
\* when the number of bound values differs from the number of placeholders
BulkInsert(table, n_file_paths, values) ==
    IF Placeholders(n_file_paths) # Len(values)
    THEN [ok |-> FALSE, table |-> table, created |-> <<>>]
    ELSE LET rows == [i \in 1..(Len(values) \div 2) |->
                        <<values[2 * i - 1], values[2 * i]>>]
             r == InsertRows(table, rows, <<>>)
         IN  [ok |-> TRUE, table |-> r.table, created |-> r.created]

\* files.iter().find(|f| &f.cas_id == cas_id): id of the created row or NULL
FindCreated(created, cas_id) ==
    IF \E i \in 1..Len(created) : created[i].cas_id = cas_id
    THEN created[CHOOSE i \in 1..Len(created) :
                    /\ created[i].cas_id = cas_id
                    /\ \A k \in 1..(i - 1) : created[k].cas_id # cas_id].id
    ELSE NULL

\* db.file().find_unique(file::cas_id::equals(cas_id)): id of the row or NULL
FindUnique(table, cas_id) ==
    IF \E i \in 1..Len(table) : table[i].cas_id = cas_id
    THEN CHOOSE i \in 1..Len(table) :
            /\ table[i].cas_id = cas_id
            /\ \A k \in 1..(i - 1) : table[k].cas_id # cas_id
    ELSE NULL

\* file_path().find_unique(id).update([file_id::set(Some(file_id))])
UpdateFileId(fps, file_path_id, file_id) ==
    [fps EXCEPT ![file_path_id].file_id = file_id]

(* ------------------------------- Init --------------------------------- *)

\* the filesystems considered. Under /L1: x and z are two files with the
\* same bytes, d is a directory, and y has been deleted, cannot be opened,
\* or is a file whose digest differs from that of /L2/x only after the 16th
\* character. Under /L2: x, with other bytes than /L1/x, and nothing else.
Disks ==
    { [p \in {<<LocationPath(l), m>> : l \in Locs, m \in MPaths} |->
          IF p \in {<<LocationPath(1), "x">>, <<LocationPath(1), "z">>} THEN <<"a", "0">>
          ELSE IF p = <<LocationPath(1), "y">> THEN y1
          ELSE IF p = <<LocationPath(1), "d">> THEN IsDir
          ELSE IF p = <<LocationPath(2), "x">> THEN <<"b", "0">>
          ELSE NoFile] :
      y1 \in {NoFile, NoRead, <<"b", "1">>} }

\* the rows the scanner may have created, one per entry it saw; every
\* file_id starts NULL
PathRows ==
    { [location_id |-> 1, materialized_path |-> "x", is_dir |-> FALSE, file_id |-> NULL],
      [location_id |-> 1, materialized_path |-> "y", is_dir |-> FALSE, file_id |-> NULL],
      [location_id |-> 1, materialized_path |-> "z", is_dir |-> FALSE, file_id |-> NULL],
      [location_id |-> 1, materialized_path |-> "d", is_dir |-> TRUE, file_id |-> NULL],
      [location_id |-> 2, materialized_path |-> "x", is_dir |-> FALSE, file_id |-> NULL] }

\* the tables the scanner may have left: no entry is recorded twice
PathTables ==
    {t \in [PathIds -> PathRows] : \A p, q \in PathIds : t[p] = t[q] => p = q}

\* the files table before the runs considered: empty, or holding the content
\* record of the bytes of /L1/x, created by the INSERT of an earlier run that
\* was aborted before it updated a path record
FileTables == {<<>>, <<[id |-> 1, cas_id |-> "a", size_in_bytes |-> 0]>>}

\* the locals of run() before it is entered
JobInit ==
    [location_id |-> 0, location_path |-> "", total_count |-> 0, task_count |-> 0,
     completed |-> 0, cursor |-> 1, cas_id_lookup |-> <<>>,
     file_paths |-> <<>>, values |-> <<>>, files |-> <<>>,
     todo |-> {}, cur |-> 0, file_id |-> NULL]

HistInit ==
    [seq |-> 0, alone |-> TRUE, assigned0 |-> [p \in PathIds |-> NULL], files0 |-> 0,
     fetches |-> 0, pages |-> <<>>, inserts |-> 0, insert_failed |-> FALSE,
     created |-> 0,
     updates |-> [p \in PathIds |-> 0], reports |-> <<>>, failed |-> {}]

Init ==
    /\ disk \in Disks
    /\ file_paths \in PathTables
    /\ files \in FileTables
    /\ pc = [j \in Jobs |-> "idle"]
    /\ job = [j \in Jobs |-> JobInit]
    /\ errors = 0
    /\ hist = [j \in Jobs |-> HistInit]

(* ------------------------------ actions ------------------------------- *)

\* a store operation may fail while the failure budget lasts
Outcomes == IF errors < MaxStoreErrors THEN {"ok", "err"} ELSE {"ok"}
Charge(outcome) == errors' = errors + (IF outcome = "err" THEN 1 ELSE 0)

Running(j) == pc[j] \notin {"idle", "done", "failed"}
Terminal(j) == pc[j] \in {"done", "failed"}

\* the leading "?" operators: an Err of get_location ends run() with Err
AfterGetLocation(outcome) == IF outcome = "ok" THEN "count" ELSE "failed"

\* line 40-41: get_location(location_id).await?, location.path
GetLocation(j, l) ==
    /\ pc[j] = "idle"
    /\ \E outcome \in Outcomes :
        /\ Charge(outcome)
        /\ pc' = [pc EXCEPT ![j] = AfterGetLocation(outcome)]
        /\ job' = [job EXCEPT ![j].location_id = l,
                               ![j].location_path =
                                   IF outcome = "ok" THEN LocationPath(l) ELSE ""]
        /\ hist' = [k \in Jobs |->
              IF k = j
              THEN [hist[j] EXCEPT
                      !.seq = 1 + Cardinality({i \in Jobs : pc[i] # "idle"}),
                      !.alone = \A i \in Jobs \ {j} : ~Running(i),
                      !.assigned0 = [p \in PathIds |-> file_paths[p].file_id],
                      !.files0 = Len(files),
                      !.failed = IF outcome = "err" THEN {"get_location"} ELSE {}]
              ELSE IF Running(k) THEN [hist[k] EXCEPT !.alone = FALSE]
              ELSE hist[k]]
    /\ UNCHANGED <<disk, file_paths, files>>

\* an initial count whose Err is swallowed (as by unwrap_or) instead of returned
AfterCount_ErrIgnored(outcome, task_count) ==
    IF 0 < task_count THEN "fetch" ELSE "final_count"

\* where run() goes after the initial count: Err ends it, no task skips the loop
AfterCount(outcome, task_count) ==
    IF outcome = "err" THEN "failed"
    ELSE IF 0 < task_count THEN "fetch" ELSE "final_count"

\* lines 43-52: count_orphan_file_paths(..).await?, task_count, TaskCount report
Count(j) ==
    /\ pc[j] = "count"
    /\ \E outcome \in Outcomes :
        LET total_count == count_orphan_file_paths(file_paths, job[j].location_id)
            task_count == TaskCount(total_count)
        IN  /\ Charge(outcome)
            /\ pc' = [pc EXCEPT ![j] = AfterCount(outcome, task_count)]
            /\ IF outcome = "ok"
               THEN /\ job' = [job EXCEPT ![j].total_count = total_count,
                                           ![j].task_count = task_count]
                    /\ hist' = [hist EXCEPT ![j].reports =
                                    Append(@, <<"TaskCount", task_count>>)]
               ELSE /\ job' = job
                    /\ hist' = [hist EXCEPT ![j].failed = @ \cup {"count"}]
    /\ UNCHANGED <<disk, file_paths, files>>

\* a loop that is only left by its break (while true)
LoopPc_NoBound(jr) == "fetch"

\* line 62: while completed < task_count
LoopPc(jr) == IF jr.completed < jr.task_count THEN "fetch" ELSE "final_count"

\* lines 63-90: get_orphan_file_paths(cursor).unwrap(), the hashing loop and
\* the break when no record of the page produced values
Fetch(j) ==
    /\ pc[j] = "fetch"
    /\ \E outcome \in Outcomes :
        LET page == get_orphan_file_paths(file_paths, job[j].cursor)
            h == HashPage(disk, job[j].location_path, file_paths, page,
                          job[j].cas_id_lookup, <<>>)
        IN  /\ Charge(outcome)
            /\ IF outcome = "err"
               THEN /\ pc' = [pc EXCEPT ![j] = "failed"]
                    /\ job' = job
                    /\ hist' = [hist EXCEPT ![j].failed = @ \cup {"fetch"}]
               ELSE /\ pc' = [pc EXCEPT ![j] =
                              IF h.panic THEN "failed"
                              ELSE IF Len(h.values) = 0 THEN "final_count"
                              ELSE "insert"]
                    /\ job' = [job EXCEPT ![j].file_paths = page,
                                           ![j].cas_id_lookup = h.lookup,
                                           ![j].values = h.values]
                    /\ hist' = [hist EXCEPT
                          ![j].fetches = @ + 1,
                          ![j].pages = Append(@, page),
                          ![j].failed = IF h.panic THEN @ \cup {"generate_cas_id"} ELSE @]
    /\ UNCHANGED <<disk, file_paths, files>>

\* lines 94-103: the bulk insert; any Err is logged and yields Vec::new()
Insert(j) ==
    /\ pc[j] = "insert"
    /\ \E outcome \in Outcomes :
        LET r == IF outcome = "err"
                 THEN [ok |-> FALSE, table |-> files, created |-> <<>>]
                 ELSE BulkInsert(files, Len(job[j].file_paths), job[j].values)
        IN  /\ Charge(outcome)
            /\ files' = r.table
            /\ pc' = [pc EXCEPT ![j] = "reconcile"]
            /\ job' = [job EXCEPT ![j].files = r.created,
                                   ![j].values = <<>>,
                                   ![j].todo = DOMAIN job[j].cas_id_lookup]
            /\ hist' = [hist EXCEPT
                  ![j].inserts = @ + 1,
                  ![j].insert_failed = ~r.ok,
                  ![j].created = @ + Len(r.created),
                  ![j].failed = IF outcome = "err" THEN @ \cup {"insert"} ELSE @]
    /\ UNCHANGED <<disk, file_paths>>

\* lines 142-145: cursor = last_row.id; completed += 1
Advance(jr) ==
    [jr EXCEPT !.cursor = jr.file_paths[Len(jr.file_paths)],
               !.completed = @ + 1,
               !.files = <<>>, !.cur = 0, !.file_id = NULL]

\* the end of one iteration of the for loop over cas_id_lookup: with no
\* entry left the page is over (lines 142-153) and the while loop re-tested
EntryDone(j, jr) ==
    IF jr.todo = {}
    THEN /\ job' = [job EXCEPT ![j] = Advance(jr)]
         /\ pc' = [pc EXCEPT ![j] = LoopPc(Advance(jr))]
    ELSE /\ job' = [job EXCEPT ![j] = [jr EXCEPT !.cur = 0, !.file_id = NULL]]
         /\ pc' = [pc EXCEPT ![j] = "reconcile"]

\* a CompletedTaskCount report sent from inside the for loop, once per entry
Reported_EveryEntry(h, jr) ==
    [h EXCEPT !.reports = Append(@, <<"CompletedTaskCount", jr.completed + 1>>)]

\* the CompletedTaskCount report of lines 146-153, sent when the page is over
Reported(h, jr) ==
    IF jr.todo = {}
    THEN [h EXCEPT !.reports = Append(@, <<"CompletedTaskCount", jr.completed + 1>>)]
    ELSE h

\* lines 132-139: the update of one path record; .unwrap() panics on an Err
DoUpdate(j, file_path_id, file_id, outcome) ==
    LET jr == [job[j] EXCEPT !.todo = @ \ {file_path_id}]
        h == [hist[j] EXCEPT !.updates[file_path_id] = @ + 1]
    IN  IF outcome = "ok"
        THEN /\ file_paths' = UpdateFileId(file_paths, file_path_id, file_id)
             /\ EntryDone(j, jr)
             /\ hist' = [hist EXCEPT ![j] = Reported(h, jr)]
        ELSE /\ file_paths' = file_paths
             /\ pc' = [pc EXCEPT ![j] = "failed"]
             /\ job' = job
             /\ hist' = [hist EXCEPT ![j] = [h EXCEPT !.failed = @ \cup {"update"}]]

\* lines 109-130: the next entry of cas_id_lookup (a HashMap: any order).
\* Its cas_id is among the rows just created, and the update follows at
\* once, or it is looked up with find_unique; None and Err skip the entry
Reconcile(j, e) ==
    /\ pc[j] = "reconcile"
    /\ e \in job[j].todo
    /\ \E outcome \in Outcomes :
        LET cas_id == job[j].cas_id_lookup[e]
            created == FindCreated(job[j].files, cas_id)
            found == IF outcome = "ok" THEN FindUnique(files, cas_id) ELSE NULL
            skipped == [job[j] EXCEPT !.todo = @ \ {e}]
        IN  /\ Charge(outcome)
            /\ IF created # NULL
               THEN DoUpdate(j, e, created, outcome)
               ELSE /\ file_paths' = file_paths
                    /\ IF found # NULL
                       THEN /\ job' = [job EXCEPT ![j].cur = e, ![j].file_id = found]
                            /\ pc' = [pc EXCEPT ![j] = "update"]
                            /\ hist' = hist
                       ELSE /\ EntryDone(j, skipped)
                            /\ hist' = [hist EXCEPT ![j] =
                                  Reported([hist[j] EXCEPT !.failed =
                                      IF outcome = "err" THEN @ \cup {"find_unique"} ELSE @],
                                    skipped)]
    /\ UNCHANGED <<disk, files>>

\* lines 132-139 for an entry resolved by find_unique
Update(j) ==
    /\ pc[j] = "update"
    /\ \E outcome \in Outcomes :
        /\ Charge(outcome)
        /\ DoUpdate(j, job[j].cur, job[j].file_id, outcome)
    /\ UNCHANGED <<disk, files>>

\* lines 157-161: the spawned closure has returned; the trailing
\* count_orphan_file_paths(..).await? and Ok(())
FinalCount(j) ==
    /\ pc[j] = "final_count"
    /\ \E outcome \in Outcomes :
        /\ Charge(outcome)
        /\ pc' = [pc EXCEPT ![j] = IF outcome = "ok" THEN "done" ELSE "failed"]
        /\ hist' = [hist EXCEPT ![j].failed =
                        IF outcome = "err" THEN @ \cup {"final_count"} ELSE @]
    /\ UNCHANGED <<disk, file_paths, files, job>>

\* the job manager runs one job at a time: j2 is started when j1 has returned
SerialStart(j) == j = "j2" => Terminal("j1")

\* two jobs in flight at once: j2 is started any time after j1
ConcurrentStart(j) == j = "j2" => pc["j1"] # "idle"

Next ==
    \E j \in Jobs :
        \/ \E l \in Locs : SerialStart(j) /\ GetLocation(j, l)
        \/ Count(j)
        \/ Fetch(j)
        \/ Insert(j)
        \/ \E e \in PathIds : Reconcile(j, e)
        \/ Update(j)
        \/ FinalCount(j)

\* runs of the job one after the other
Spec == Init /\ [][Next]_vars

NextConcurrent ==
    \E j \in Jobs :
        \/ \E l \in Locs : ConcurrentStart(j) /\ GetLocation(j, l)
        \/ Count(j)
        \/ Fetch(j)
        \/ Insert(j)
        \/ \E e \in PathIds : Reconcile(j, e)
        \/ Update(j)
        \/ FinalCount(j)

\* two runs of the job interleaved store operation by store operation
SpecConcurrent == Init /\ [][NextConcurrent]_vars

\* one step of the run of job j once it has been started
RunStep(j) ==
    \/ Count(j)
    \/ Fetch(j)
    \/ Insert(j)
    \/ \E e \in PathIds : Reconcile(j, e)
    \/ Update(j)
    \/ FinalCount(j)

\* a started run has moved on
RunMoves == \E j \in Jobs : Running(j) /\ <<pc[j], job[j]>> # <<pc'[j], job'[j]>>

\* serial runs in which a started run is not suspended for ever (run() is
\* polled to completion by the worker and every store operation returns):
\* weak fairness of the runs' steps, WF_vars(\E j \in Jobs : RunStep(j)),
\* written out with its enabling condition, which is that a job is running
\* (see CanStep)
SpecFair ==
    Spec /\ (<>[](\E j \in Jobs : Running(j)) => []<><<RunMoves>>_vars)

(* ------------------------- reading the state -------------------------- *)

\* the file of a path record: its own location's root joined with its path
OwnFile(p) ==
    disk[<<LocationPath(file_paths[p].location_id), file_paths[p].materialized_path>>]

\* the file can be hashed
Readable(p) == OwnFile(p) \in Digests

\* the identifier computed from the bytes of the record's own file
OwnCas(p) == Truncate16(OwnFile(p))

\* what job j's prepare_file_values makes of path record p
JobHash(j, p) == prepare_file_values(disk, job[j].location_path, file_paths[p])

\* path record p refers to an existing content record holding cas_id
RefersTo(p, cas_id) ==
    /\ file_paths[p].file_id \in 1..Len(files)
    /\ files[file_paths[p].file_id].cas_id = cas_id

\* the ids of the page job j fetched last
PageIds(j) == {job[j].file_paths[i] : i \in 1..Len(job[j].file_paths)}

\* job j has finished the page it fetched last (lines 142-153 have run)
PageProcessed(j) ==
    /\ pc[j] \in {"fetch", "final_count", "done"}
    /\ hist[j].reports # <<>>
    /\ hist[j].reports[Len(hist[j].reports)] = <<"CompletedTaskCount", hist[j].fetches>>

\* every path record of the store belongs to job j's location
OnlyOwnLocation(j) == \A p \in PathIds : file_paths[p].location_id = job[j].location_id

\* the path records that were orphans when job j started
Orphans0(j) == {p \in PathIds : ~file_paths[p].is_dir /\ hist[j].assigned0[p] = NULL}

\* the content identifiers the store held when job j started
Cas0(j) == {files[i].cas_id : i \in 1..hist[j].files0}

(* ------------------------------ claims -------------------------------- *)

\* C1 (partial-failure isolation): when a job has processed a page of
\* N >= 2 records of its own location of which exactly one failed to hash and
\* no store operation has failed, each of the other N-1 records refers to the
\* content record holding the identifier computed for it.
C1_PartialFailureIsolation ==
    \A j \in Jobs :
        ( /\ PageProcessed(j)
          /\ hist[j].failed = {}
          /\ OnlyOwnLocation(j)
          /\ Len(job[j].file_paths) >= 2
          /\ Cardinality({p \in PageIds(j) : JobHash(j, p).res = "err"}) = 1
          /\ \A p \in PageIds(j) : JobHash(j, p).res \in {"ok", "err"} )
        => \A p \in PageIds(j) :
              JobHash(j, p).res = "ok" => RefersTo(p, JobHash(j, p).cas_id)

\* C2 (no lost updates): when a run in which no store operation failed has
\* returned Ok, every record of its location that was an orphan at its start
\* and whose file is readable refers to the content record holding the
\* identifier of its file.
C2_NoLostUpdates ==
    \A j \in Jobs :
        (pc[j] = "done" /\ hist[j].failed = {} /\ OnlyOwnLocation(j))
        => \A p \in Orphans0(j) : Readable(p) => RefersTo(p, OwnCas(p))

\* C3 (dedup correctness): after a run that returned Ok with no store
\* failure, the readable records of its location with identical bytes share
\* one file_id, exactly one content record holds their identifier, and the
\* run created as many content records as there are identifiers, new to the
\* store, among the records it resolved.
C3_DedupCorrectness ==
    \A j \in Jobs :
        (pc[j] = "done" /\ hist[j].failed = {} /\ OnlyOwnLocation(j))
        => /\ \A p, q \in PathIds :
                ( /\ ~file_paths[p].is_dir /\ ~file_paths[q].is_dir
                  /\ Readable(p) /\ OwnFile(p) = OwnFile(q) )
                => /\ file_paths[p].file_id = file_paths[q].file_id
                   /\ Cardinality({i \in 1..Len(files) : files[i].cas_id = OwnCas(p)}) = 1
           /\ hist[j].created =
                Cardinality({OwnCas(p) : p \in {q \in Orphans0(j) :
                                file_paths[q].file_id # NULL}} \ Cas0(j))

\* C4 (concurrent runs): in every state of two interleaved runs no two
\* content records hold the same cas_id, and every path record a job has
\* resolved refers to the content record holding the identifier that job
\* computed for it.
C4_ConcurrentRuns ==
    /\ \A a, b \in 1..Len(files) : files[a].cas_id = files[b].cas_id => a = b
    /\ \A j \in Jobs : \A p \in PathIds :
          (hist[j].updates[p] > 0 /\ "update" \notin hist[j].failed)
          => RefersTo(p, job[j].cas_id_lookup[p])

\* C5 (idempotence): when two runs for the same location have returned Ok one
\* after the other with no store failure, the second left every file_id as it
\* found it, created no content record and issued no path update.
C5_Idempotence ==
    \A j, k \in Jobs :
        ( /\ pc[k] = "done" /\ pc[j] = "done"
          /\ hist[k].seq = 1 /\ hist[j].seq = 2
          /\ job[j].location_id = job[k].location_id
          /\ hist[k].failed = {} /\ hist[j].failed = {} )
        => /\ \A p \in PathIds : file_paths[p].file_id = hist[j].assigned0[p]
           /\ hist[j].created = 0
           /\ \A p \in PathIds : hist[j].updates[p] = 0

\* C6 (path invariant): every non-directory path record has a null file_id
\* or refers to an existing content record whose cas_id is the identifier of
\* the record's own file.
C6_PathInvariant ==
    \A p \in PathIds :
        ~file_paths[p].is_dir
        => \/ file_paths[p].file_id = NULL
           \/ Readable(p) /\ RefersTo(p, OwnCas(p))

\* C7 (update failure is isolated): a run in which the update of a path
\* record failed is not aborted.
C7_UpdateFailureIsolated ==
    \A j \in Jobs : "update" \in hist[j].failed => pc[j] # "failed"

\* C8 (fatal errors): a run whose get_location or initial count failed has
\* ended in failure without fetching a page, issuing an insert or an update,
\* or reporting a CompletedTaskCount.
C8_FatalErrors ==
    \A j \in Jobs :
        ("get_location" \in hist[j].failed \/ "count" \in hist[j].failed)
        => /\ pc[j] = "failed"
           /\ hist[j].fetches = 0
           /\ hist[j].inserts = 0 /\ hist[j].created = 0
           /\ \A p \in PathIds : hist[j].updates[p] = 0
           /\ \A i \in 1..Len(hist[j].reports) :
                 hist[j].reports[i][1] # "CompletedTaskCount"

\* a run's initial count failed although its location had orphans to process
C8_Witness ==
    \E j \in Jobs :
        /\ "count" \in hist[j].failed
        /\ count_orphan_file_paths(file_paths, job[j].location_id) > 0

\* the initial count of job j succeeded and found no orphan
CountedZero(j) ==
    /\ pc[j] \notin {"idle", "count"}
    /\ hist[j].failed \cap {"get_location", "count"} = {}
    /\ job[j].total_count = 0

C10_UpdatedAtMostOnce ==
    \A j \in Jobs : \A p \in PathIds : hist[j].updates[p] <= 1

\* C11 (location frame): every record of a page a job fetched, and every
\* record the job issued an update for, has the location_id of the job.
C11_LocationFrame ==
    \A j \in Jobs :
        /\ \A p \in PageIds(j) : file_paths[p].location_id = job[j].location_id
        /\ \A p \in PathIds :
              hist[j].updates[p] > 0 => file_paths[p].location_id = job[j].location_id

\* C12 (loop exit): a run over records of its own location that has left the
\* while loop normally has completed == task_count or fetched an empty page
\* last; a non-empty page whose records all failed to hash does not end it.
C12_LoopExit ==
    \A j \in Jobs :
        (pc[j] \in {"final_count", "done"} /\ OnlyOwnLocation(j))
        => \/ job[j].completed = job[j].task_count
           \/ job[j].file_paths = <<>>

\* the ids of the k-th page job j fetched
PageSet(j, k) == {hist[j].pages[k][i] : i \in 1..Len(hist[j].pages[k])}

\* C13 (cursor and no re-fetch): after each processed page the cursor is the
\* id of the last record of that page, and no record is fetched by two pages
\* of one run (a record in a later page was still unresolved when fetched).
C13_CursorNoRefetch ==
    \A j \in Jobs :
        /\ PageProcessed(j)
           => job[j].cursor = job[j].file_paths[Len(job[j].file_paths)]
        /\ \A i, k \in 1..Len(hist[j].pages) :
              i < k => PageSet(j, i) \cap PageSet(j, k) = {}

\* job j takes a Fetch step that returns a page
Fetches(j) == hist'[j].fetches = hist[j].fetches + 1

\* C14 (page contents): every page a job fetches has at most PageSize
\* records in strictly ascending id order, each with id >= the cursor and,
\* at fetch time, file_id null and is_dir false; no record of the page was
\* given a file_id by an earlier page of the same run.
C14_PageContents ==
    [][\A j \in Jobs :
          Fetches(j)
          => LET page == job'[j].file_paths
             IN  /\ Len(page) <= PageSize
                 /\ \A i, k \in 1..Len(page) : i < k => page[i] < page[k]
                 /\ \A i \in 1..Len(page) :
                       /\ page[i] >= job[j].cursor
                       /\ file_paths[page[i]].file_id = NULL
                       /\ ~file_paths[page[i]].is_dir
                       /\ hist[j].updates[page[i]] = 0]_vars

\* a job has fetched a later page with the cursor on a record that an
\* earlier page of the run resolved, and the page starts after that record
C14_Witness ==
    \E j \in Jobs :
        /\ pc[j] = "insert"
        /\ Len(hist[j].pages) >= 2
        /\ hist[j].updates[job[j].cursor] > 0
        /\ file_paths[job[j].cursor].file_id # NULL
        /\ job[j].file_paths[1] > job[j].cursor

\* job j takes a step of the reconciliation of a page whose bulk insert failed
AfterFailedInsert(j) ==
    /\ hist[j].insert_failed
    /\ pc[j] \in {"reconcile", "update"}
    /\ <<pc[j], job[j], hist[j]>> # <<pc'[j], job'[j], hist'[j]>>

\* C15 (bulk insert failure): a bulk insert that fails creates no content
\* record and returns no row; in the reconciliation that follows, a file_id
\* is only set to a content record that holds the entry's identifier, an
\* entry whose identifier is not in the store leaves its record as it was,
\* the job is not aborted, and when the last entry is done the cursor is the
\* last id of the page, completed is one more and the loop is re-tested.
C15_InsertFailureFallback ==
    [][\A j \in Jobs :
          /\ (pc[j] = "insert" /\ hist'[j].insert_failed)
             => /\ files' = files
                /\ job'[j].files = <<>>
                /\ pc'[j] = "reconcile"
          /\ AfterFailedInsert(j)
             => /\ files' = files
                /\ \A p \in PathIds :
                      file_paths'[p] # file_paths[p]
                      => /\ p \in DOMAIN job[j].cas_id_lookup
                         /\ file_paths'[p].file_id \in 1..Len(files)
                         /\ files[file_paths'[p].file_id].cas_id = job[j].cas_id_lookup[p]
                /\ \A p \in job[j].todo \ job'[j].todo :
                      ~Conflicts(files, job[j].cas_id_lookup[p])
                      => file_paths'[p] = file_paths[p]
                /\ pc'[j] # "failed"
                /\ pc'[j] \notin {"reconcile", "update"}
                   => /\ job'[j].cursor = job[j].file_paths[Len(job[j].file_paths)]
                      /\ job'[j].completed = job[j].completed + 1
                      /\ pc'[j] = LoopPc(job'[j])]_vars

\* the rows of table files' that were not in table files
NewRows == {files'[i] : i \in (Len(files) + 1)..Len(files')}

\* C16 (insert-if-absent): no step removes or changes a content record or
\* removes a path record; a bulk insert creates at most one record per
\* identifier, none for an identifier the table already held, and returns
\* exactly the (id, cas_id) of the records it created.
C16_InsertIfAbsent ==
    [][/\ Len(files') >= Len(files)
       /\ \A i \in 1..Len(files) : files'[i] = files[i]
       /\ DOMAIN file_paths' = DOMAIN file_paths
       /\ \A j \in Jobs :
             (pc[j] = "insert" /\ pc'[j] # "insert")
             => /\ \A r \in NewRows : ~\E i \in 1..Len(files) : files[i].cas_id = r.cas_id
                /\ \A r, t \in NewRows : r.cas_id = t.cas_id => r = t
                /\ \A r \in NewRows : r.cas_id \in
                       {job[j].values[2 * i - 1] : i \in 1..(Len(job[j].values) \div 2)}
                /\ {job'[j].files[i] : i \in 1..Len(job'[j].files)}
                       = {[id |-> r.id, cas_id |-> r.cas_id] : r \in NewRows}
                /\ Len(job'[j].files) = Cardinality(NewRows)]_vars

\* a bulk insert has returned one row for a batch of two identifiers of
\* which the other was already in the table
C16_Witness ==
    \E j \in Jobs :
        /\ pc[j] = "reconcile" /\ ~hist[j].insert_failed
        /\ Len(job[j].files) = 1
        /\ \E p, q \in PageIds(j) :
              /\ p \in DOMAIN job[j].cas_id_lookup /\ q \in DOMAIN job[j].cas_id_lookup
              /\ job[j].cas_id_lookup[p] \in Cas0(j)
              /\ job[j].cas_id_lookup[q] = job[j].files[1].cas_id
              /\ FindUnique(files, job[j].cas_id_lookup[p]) < job[j].files[1].id

\* C17 (page-scoped lookup): at every point of a run cas_id_lookup holds
\* entries only for records of the page fetched last, hence at most PageSize
\* entries, and the entries still to reconcile are records of that page.
C17_LookupPageScoped ==
    \A j \in Jobs :
        /\ DOMAIN job[j].cas_id_lookup \subseteq PageIds(j)
        /\ Cardinality(DOMAIN job[j].cas_id_lookup) <= PageSize
        /\ job[j].todo \subseteq PageIds(j)

\* the loop of job j has fetched no more pages than the task count computed
\* from the orphans of its location counted at the start
PagesBounded(j) ==
    /\ hist[j].fetches <= job[j].task_count
    /\ job[j].completed <= job[j].task_count
    /\ job[j].task_count = TaskCount(job[j].total_count)
    /\ (pc[j] \notin {"idle", "count"}
          /\ hist[j].failed \cap {"get_location", "count"} = {})
       => job[j].total_count =
             Cardinality({p \in Orphans0(j) :
                 file_paths[p].location_id = job[j].location_id})

\* a run that has started and not ended is never stuck: the steps of a run
\* wait for nothing but their place in run(), except the for loop over
\* cas_id_lookup, which needs an entry to take
CanStep(j) == pc[j] = "reconcile" => job[j].todo # {}

C19_ReportsOrdered ==
    \A j \in Jobs :
        LET r == hist[j].reports
        IN  /\ \A i \in 1..Len(r) :
                  r[i] = IF i = 1 THEN <<"TaskCount", job[j].task_count>>
                         ELSE <<"CompletedTaskCount", i - 1>>
            /\ hist[j].fetches > 0 => Len(r) >= 1
            /\ (pc[j] \notin {"idle", "count"}
                  /\ hist[j].failed \cap {"get_location", "count"} = {})
               => Len(r) >= 1
            /\ Len(r) >= 1
               => /\ Len(r) - 1 = job[j].completed
                  /\ Len(r) - 1 <= job[j].task_count
                  /\ Len(r) - 1 <= hist[j].fetches
                  /\ pc[j] \in {"insert", "reconcile", "update"}
                     => Len(r) - 1 = hist[j].fetches - 1

\* a run has reported TaskCount(2), CompletedTaskCount(1) and
\* CompletedTaskCount(2)
C19_Witness ==
    \E j \in Jobs :
        hist[j].reports = << <<"TaskCount", 2>>, <<"CompletedTaskCount", 1>>,
                             <<"CompletedTaskCount", 2>> >>

\* C20 (monotone resolution): no step, of the same run, of a later run or
\* of a concurrent job, changes a file_id that is not null.
C20_ResolutionMonotone ==
    [][\A p \in PathIds :
          file_paths[p].file_id # NULL
          => file_paths'[p].file_id = file_paths[p].file_id]_vars

====
